---- MODULE Spec2Model ----
(***************************************************************************)
(* homebridge-rainbird: the accessory reconciliation of RainbirdPlatform   *)
(* (src/src/platform.ts, lines 1-877) as a state machine.                  *)
(*                                                                         *)
(* Strings are sequences of tokens ("-" and "," are tokens of their own),  *)
(* so that the template strings the identifiers are derived from are       *)
(* concatenations.  api.hap.uuid.generate is a hash of the host; it is     *)
(* taken to be injective, so an identifier is the string it is derived     *)
(* from.                                                                   *)
(*                                                                         *)
(* Scheduling: every create... method is an async function that the        *)
(* caller does not await.  It runs synchronously up to its first await and *)
(* each await parks its continuation at the tail of the microtask queue    *)
(* (variable queue, first in first out).  rainbird.init() is network I/O:  *)
(* it settles only when the microtask queue is empty.  A zone_enable       *)
(* notification is emitted synchronously by the device handle, whenever    *)
(* its listener is subscribed.                                             *)
(***************************************************************************)
EXTENDS Integers, Sequences, FiniteSets, TLC

\* ------------------------------------------------------------------ bounds
MaxZone == 2        \* zone numbers are 1..MaxZone
MaxNotify == 2      \* zone_enable notifications handled in one run
MaxDevices == 2     \* entries of config.devices
MaxFilterLen == 4   \* characters of an includeZones string
MaxModelLen == 3    \* pieces of a reported model string
MaxNameLen == 4     \* characters of a display name

\* --------------------------------------------------------- program constants
DefaultRefreshRate == 300
CONFIGURED == 1
NOT_CONFIGURED == 0

Zones == 1..MaxZone
Programs == <<"A", "B", "C", "D">>

FlagNames ==
  {"showRainSensor", "showValveSensor", "showZoneValve",
   "showProgramASwitch", "showProgramBSwitch", "showProgramCSwitch",
   "showProgramDSwitch", "showStopIrrigationSwitch",
   "showDelayIrrigationSwitch"}

\* ------------------------------------------------------------------ strings
DigitTok == <<"0", "1", "2", "3", "4", "5", "6", "7", "8", "9">>

RECURSIVE Str(_)
\* `${n}` for a non-negative integer n
Str(n) == IF n < 10 THEN <<DigitTok[n + 1]>>
          ELSE Str(n \div 10) \o <<DigitTok[(n % 10) + 1]>>

\* `${x}` for an optional string: the empty sequence stands for undefined
Tpl(x) == IF x = <<>> THEN <<"undefined">> ELSE x

PluginVersion == <<"3.0.1">>

VARIABLES
  devices,              \* this.config.devices
  options,              \* this.config.options: [refreshRate], 0 = not set
  metaData,             \* per device entry: the controller behind it
  cache,                \* the host's persisted accessories not yet restored
  heap,                 \* the PlatformAccessory objects, by identity
  accessories,          \* this.accessories: identities, in order
  registered,           \* host: the registered platform accessories
  published,            \* host: the published external accessories
  updated,              \* host: passed to api.updatePlatformAccessories
  unregistered,         \* host: log of api.unregisterPlatformAccessories
  handlers,             \* per object: presentation handlers constructed
  queue,                \* microtask queue of suspended continuations
  irrigationAccessory,  \* the promise createIrrigationSystem returned
  awaiting,             \* discoverDevices is parked on irrigationAccessory
  rejected,             \* passes that ended in an unhandled rejection
  disc,                 \* frame of discoverDevices: [pc, dev, zi]
  handles,              \* the RainBirdService objects constructed
  subscribed,           \* devices whose zone_enable listener is on
  errorLog,             \* error reports of the platform
  notifications,        \* the zone_enable notifications handled so far
  started,              \* the create... calls made so far, in order
  calc                  \* the last application of a function on its own

vars == <<devices, options, metaData, cache, heap, accessories, registered,
          published, updated, unregistered, handlers, queue,
          irrigationAccessory, awaiting, rejected, disc, handles, subscribed,
          errorLog, notifications, started, calc>>

config == <<devices, options, metaData>>

\* ---------------------------------------------------------- configuration
\* initialiseConfig: an option the entry does not set is backfilled, the
\* visibility flags with false and includeZones with ''.  A raw entry names
\* the flags it sets to true (shown) and the keys it leaves out (unset).
initialiseConfig(raw) ==
  [ipaddress    |-> raw.ipaddress,
   password     |-> raw.password,
   flags        |-> [f \in FlagNames |->
                       IF f \in raw.unset THEN FALSE ELSE f \in raw.shown],
   includeZones |-> IF "includeZones" \in raw.unset THEN <<>>
                    ELSE raw.includeZones,
   delete       |-> raw.delete,
   external     |-> raw.external,
   firmware     |-> raw.firmware]

\* verifyConfig, as the constructor runs and catches it: the first entry
\* without an address or a password throws, which skips the defaulting of
\* options.refreshRate; the constructor reports the error and goes on.
verifyConfig(rawDevices, refreshRate) ==
  LET devs == [i \in 1..Len(rawDevices) |-> initialiseConfig(rawDevices[i])]
      bad  == {i \in 1..Len(devs) :
                 devs[i].ipaddress = <<>> \/ devs[i].password = <<>>}
  IN [devices |-> devs,
      options |-> [refreshRate |->
                     IF bad = {} /\ refreshRate = 0 THEN DefaultRefreshRate
                     ELSE refreshRate],
      errors  |-> IF bad = {} THEN <<>> ELSE <<"Verify Config">>]

\* ------------------------------------------------------------ identifiers
\* The model string of each accessory kind and the string its identifier is
\* generated from: `${device.ipaddress}-${model}-${rainbird.serialNumber}`.
LeakModel == <<"WR2">>
ValveModel(rainbird, zoneId) ==
  rainbird.model \o <<"-", "valve", "-">> \o Str(zoneId)
ContactModel(rainbird, zoneId) == rainbird.model \o <<"-">> \o Str(zoneId)
ProgramModel(rainbird, programId) ==
  rainbird.model \o <<"-", "pgm", "-", programId>>
StopModel(rainbird) == rainbird.model \o <<"-", "stop">>
DelayModel(rainbird) == rainbird.model \o <<"-", "delay">>

generate(device, model, rainbird) ==
  Tpl(device.ipaddress) \o <<"-">> \o model \o <<"-">> \o rainbird.serialNumber

\* A key names one accessory of a device: its kind and its zone or program.
Key(kind, zoneId, programId) ==
  [kind |-> kind, zoneId |-> zoneId, programId |-> programId]
SysKey == Key("sys", 0, "")
LeakKey == Key("leak", 0, "")
ValveKey(z) == Key("valve", z, "")
ContactKey(z) == Key("contact", z, "")
ProgramKey(p) == Key("pgm", 0, p)
StopKey == Key("stop", 0, "")
DelayKey == Key("delay", 0, "")

KeyModel(rainbird, k) ==
  CASE k.kind = "sys"     -> rainbird.model
    [] k.kind = "leak"    -> LeakModel
    [] k.kind = "valve"   -> ValveModel(rainbird, k.zoneId)
    [] k.kind = "contact" -> ContactModel(rainbird, k.zoneId)
    [] k.kind = "pgm"     -> ProgramModel(rainbird, k.programId)
    [] k.kind = "stop"    -> StopModel(rainbird)
    [] OTHER              -> DelayModel(rainbird)

KeyUuid(device, rainbird, k) == generate(device, KeyModel(rainbird, k), rainbird)

RECURSIVE ZoneKeys(_)
ZoneKeys(n) == IF n = 0 THEN <<>>
               ELSE ZoneKeys(n - 1) \o <<ValveKey(n), ContactKey(n)>>

\* every key of one device, in the order discovery visits the kinds
KeyOrder ==
  <<SysKey, LeakKey>> \o ZoneKeys(MaxZone)
    \o [i \in 1..Len(Programs) |-> ProgramKey(Programs[i])]
    \o <<StopKey, DelayKey>>

AllKeys == {KeyOrder[i] : i \in 1..Len(KeyOrder)}

\* ---------------------------------------------------------- zone filter
\* device.includeZones.split(',').map(Number): the filter is a sequence of
\* characters; NaN stands for the number Number() gives for text that is no
\* numeral.
NaN == -1
Digits == {DigitTok[i] : i \in 1..Len(DigitTok)}
DigitValue(c) == (CHOOSE i \in 1..Len(DigitTok) : DigitTok[i] = c) - 1

RECURSIVE split(_)
\* String.prototype.split(','): always at least one entry
split(str) ==
  IF \A i \in 1..Len(str) : str[i] # ","
  THEN <<str>>
  ELSE LET i == CHOOSE j \in 1..Len(str) :
                  str[j] = "," /\ \A k \in 1..(j - 1) : str[k] # ","
       IN <<SubSeq(str, 1, i - 1)>> \o split(SubSeq(str, i + 1, Len(str)))

RECURSIVE trim(_)
trim(str) ==
  IF str = <<>> THEN str
  ELSE IF Head(str) = " " THEN trim(Tail(str))
  ELSE IF str[Len(str)] = " " THEN trim(SubSeq(str, 1, Len(str) - 1))
  ELSE str

RECURSIVE Decimal(_)
Decimal(str) ==
  IF str = <<>> THEN 0
  ELSE 10 * Decimal(SubSeq(str, 1, Len(str) - 1)) + DigitValue(str[Len(str)])

\* Number(string): white space is trimmed, the empty string is 0, a run of
\* digits is its value, any other text is NaN
Number(str) ==
  LET s == trim(str)
  IN IF s = <<>> THEN 0
     ELSE IF \A i \in 1..Len(s) : s[i] \in Digits THEN Decimal(s)
     ELSE NaN

includeZonesOf(device) ==
  LET parts == split(device.includeZones)
  IN [i \in 1..Len(parts) |-> Number(parts[i])]

\* Array.prototype.includes: NaN is found only by NaN, never by a zone
includes(arr, x) == x # NaN /\ \E i \in 1..Len(arr) : arr[i] = x

\* ------------------------------------------------------- the mutable state
\* no function has been applied on its own
NoCalc == [op |-> "none"]

\* The operations are written as functions from state to state, so that a
\* handler that calls several of them is their composition.
Cur ==
  [cache |-> cache, heap |-> heap, accessories |-> accessories,
   registered |-> registered, published |-> published, updated |-> updated,
   unregistered |-> unregistered, handlers |-> handlers, queue |-> queue,
   irrigationAccessory |-> irrigationAccessory, awaiting |-> awaiting,
   rejected |-> rejected, disc |-> disc, handles |-> handles,
   subscribed |-> subscribed, errorLog |-> errorLog,
   notifications |-> notifications, started |-> started]

\* the fields and the host state become those of s
Assign(s) ==
  /\ cache' = s.cache
  /\ heap' = s.heap
  /\ accessories' = s.accessories
  /\ registered' = s.registered
  /\ published' = s.published
  /\ updated' = s.updated
  /\ unregistered' = s.unregistered
  /\ handlers' = s.handlers
  /\ queue' = s.queue
  /\ irrigationAccessory' = s.irrigationAccessory
  /\ awaiting' = s.awaiting
  /\ rejected' = s.rejected
  /\ disc' = s.disc
  /\ handles' = s.handles
  /\ subscribed' = s.subscribed
  /\ errorLog' = s.errorLog
  /\ notifications' = s.notifications
  /\ started' = s.started

Commit(s) == Assign(s) /\ UNCHANGED <<config, calc>>

EmptyMap == [z \in {} |-> CONFIGURED]

\* new this.api.platformAccessory(name, uuid): an empty context
NewAccessory(uuid) ==
  [UUID |-> uuid, device |-> 0, deviceID |-> <<>>, model |-> <<>>,
   FirmwareRevision |-> <<>>, zoneId |-> 0, programId |-> "",
   configured |-> EmptyMap]

\* this.accessories.find(accessory => accessory.UUID === uuid): the first
\* match, 0 for undefined
find(s, uuid) ==
  LET hits == {i \in 1..Len(s.accessories) :
                 s.heap[s.accessories[i]].UUID = uuid}
  IN IF hits = {} THEN 0
     ELSE s.accessories[CHOOSE i \in hits : \A j \in hits : i <= j]

\* this.accessories.findIndex(...): the first index, 0 for none
findIndex(s, uuid) ==
  LET hits == {i \in 1..Len(s.accessories) :
                 s.heap[s.accessories[i]].UUID = uuid}
  IN IF hits = {} THEN 0 ELSE CHOOSE i \in hits : \A j \in hits : i <= j

\* this.accessories.splice(index, 1)
splice(seq, index) ==
  SubSeq(seq, 1, index - 1) \o SubSeq(seq, index + 1, Len(seq))

\* unregisterPlatformAccessories: the host is told, this.accessories is
\* left as it is
unregisterPlatformAccessories(s, existingAccessory) ==
  [s EXCEPT !.registered = @ \ {existingAccessory},
            !.unregistered = Append(@, existingAccessory)]

externalOrPlatform(s, device, accessory) ==
  IF device.external
  THEN [s EXCEPT !.published = @ \cup {accessory}]
  ELSE [s EXCEPT !.registered = @ \cup {accessory}]

\* a resolution that prefers the version of the handle
FirmwareRevisionOfHandle(rainbird, device) ==
  IF rainbird.version # <<>> THEN rainbird.version
  ELSE IF device.firmware # 0 THEN Str(device.firmware)
  ELSE PluginVersion

FirmwareRevision(rainbird, device) ==
  IF device.firmware # 0 THEN Str(device.firmware)
  ELSE IF rainbird.version # <<>> THEN rainbird.version
  ELSE PluginVersion

\* a suspended continuation: a pass of one accessory, or discoverDevices
PassTask(d, key, model, acc, isNew, irr) ==
  [t |-> "pass", dev |-> d, kind |-> key.kind, zoneId |-> key.zoneId,
   programId |-> key.programId, model |-> model, acc |-> acc,
   isNew |-> isNew, pc |-> "name", irr |-> irr]

DiscoverTask ==
  [t |-> "discover", dev |-> 0, kind |-> "", zoneId |-> 0, programId |-> "",
   model |-> <<>>, acc |-> 0, isNew |-> FALSE, pc |-> "", irr |-> 0]

\* ------------------------------------------------ the reconciliation passes
\* The part of a create... method that runs inside the call, up to its first
\* await.  All seven methods have this shape: look the identifier up; an
\* existing accessory that should not exist is unregistered at once; one
\* that should exist, or a new one, is handed to the continuation that
\* follows `await this.validateAndCleanDisplayName(...)`.
\* a pass that creates the accessory it does not find, wanted or not
ReconcileCreatesUnwanted(called, d, key, model, shouldExist) ==
  LET s == [called EXCEPT !.started = Append(@, [dev |-> d, key |-> key])]
      uuid == generate(devices[d], model, metaData[d])
      existingAccessory == find(s, uuid)
  IN IF existingAccessory # 0
     THEN IF shouldExist
          THEN [s EXCEPT !.queue =
                  Append(@, PassTask(d, key, model, existingAccessory, FALSE, 0))]
          ELSE unregisterPlatformAccessories(s, existingAccessory)
     ELSE [s EXCEPT !.heap = Append(@, NewAccessory(uuid)),
                    !.handlers = Append(@, 0),
                    !.queue = Append(@,
                       PassTask(d, key, model, Len(s.heap) + 1, TRUE, 0))]

Reconcile(called, d, key, model, shouldExist) ==
  LET s == [called EXCEPT !.started = Append(@, [dev |-> d, key |-> key])]
      device == devices[d]
      rainbird == metaData[d]
      uuid == generate(device, model, rainbird)
      existingAccessory == find(s, uuid)
      irrigationUuid == generate(device, rainbird.model, rainbird)
      irr == IF key.kind = "valve" THEN find(s, irrigationUuid) ELSE 0
  IN IF existingAccessory # 0
     THEN IF shouldExist
          THEN [s EXCEPT !.queue =
                  Append(@, PassTask(d, key, model, existingAccessory, FALSE, irr))]
          ELSE unregisterPlatformAccessories(s, existingAccessory)
     ELSE IF shouldExist
          THEN [s EXCEPT !.heap = Append(@, NewAccessory(uuid)),
                         !.handlers = Append(@, 0),
                         !.queue = Append(@,
                            PassTask(d, key, model, Len(s.heap) + 1, TRUE, irr))]
          ELSE s

registerIrrigationSystem(device) == ~device.delete

createIrrigationSystem(s, d) ==
  LET device == devices[d]
      r == Reconcile(s, d, SysKey, metaData[d].model,
                     registerIrrigationSystem(device))
  IN \* the promise is settled at once (with undefined) on the branches
     \* that do not await
     [r EXCEPT !.irrigationAccessory =
        [settled |-> ~registerIrrigationSystem(device), value |-> 0]]

registerLeakSensor(device) == ~device.delete /\ device.flags["showRainSensor"]

createLeakSensor(s, d) ==
  Reconcile(s, d, LeakKey, LeakModel, registerLeakSensor(devices[d]))

\* the filter without its wildcard: only the zone's own number counts
registerZoneValveOwnNumber(device, zoneId) ==
  LET includeZones == includeZonesOf(device)
  IN /\ ~device.delete
     /\ device.flags["showZoneValve"]
     /\ includes(includeZones, zoneId)

registerZoneValve(device, zoneId) ==
  LET includeZones == includeZonesOf(device)
  IN /\ ~device.delete
     /\ device.flags["showZoneValve"]
     /\ (includes(includeZones, 0) \/ includes(includeZones, zoneId))

createZoneValve(s, d, zoneId) ==
  Reconcile(s, d, ValveKey(zoneId), ValveModel(metaData[d], zoneId),
            registerZoneValve(devices[d], zoneId))

\* a contact sensor pass that does not look at showValveSensor
registerContactSensorUngated(device) == ~device.delete

registerContactSensor(device) ==
  ~device.delete /\ device.flags["showValveSensor"]

createContactSensor(s, d, zoneId) ==
  Reconcile(s, d, ContactKey(zoneId), ContactModel(metaData[d], zoneId),
            registerContactSensor(devices[d]))

\* a removal that derives the identifier from the first configured device
removeContactSensorOfFirst(s, d, zoneId) ==
  LET uuid == generate(devices[1], ContactModel(metaData[1], zoneId), metaData[1])
      index == findIndex(s, uuid)
  IN IF index >= 1
     THEN LET u == unregisterPlatformAccessories(s, s.accessories[index])
          IN [u EXCEPT !.accessories = splice(@, index)]
     ELSE s

removeContactSensor(s, d, zoneId) ==
  LET uuid == generate(devices[d], ContactModel(metaData[d], zoneId), metaData[d])
      index == findIndex(s, uuid)
  IN IF index >= 1
     THEN LET u == unregisterPlatformAccessories(s, s.accessories[index])
          IN [u EXCEPT !.accessories = splice(@, index)]
     ELSE s

removeZoneValve(s, d, zoneId) ==
  LET uuid == generate(devices[d], ValveModel(metaData[d], zoneId), metaData[d])
      index == findIndex(s, uuid)
  IN IF index >= 1
     THEN LET u == unregisterPlatformAccessories(s, s.accessories[index])
          IN [u EXCEPT !.accessories = splice(@, index)]
     ELSE s

\* device[`showProgram${programId}Switch`]
showProgramSwitch(device, programId) ==
  device.flags[CASE programId = "A" -> "showProgramASwitch"
                 [] programId = "B" -> "showProgramBSwitch"
                 [] programId = "C" -> "showProgramCSwitch"
                 [] OTHER           -> "showProgramDSwitch"]

registerProgramSwitch(device, programId) ==
  ~device.delete /\ showProgramSwitch(device, programId)

createProgramSwitch(s, d, programId) ==
  Reconcile(s, d, ProgramKey(programId), ProgramModel(metaData[d], programId),
            registerProgramSwitch(devices[d], programId))

registerStopIrrigationSwitch(device) ==
  ~device.delete /\ device.flags["showStopIrrigationSwitch"]

createStopIrrigationSwitch(s, d) ==
  Reconcile(s, d, StopKey, StopModel(metaData[d]),
            registerStopIrrigationSwitch(devices[d]))

registerDelayIrrigationSwitch(device) ==
  ~device.delete /\ device.flags["showDelayIrrigationSwitch"]

createDelayIrrigationSwitch(s, d) ==
  Reconcile(s, d, DelayKey, DelayModel(metaData[d]),
            registerDelayIrrigationSwitch(devices[d]))

\* After `await this.validateAndCleanDisplayName(...)`: the context fields
\* up to the next await, `await this.FirmwareRevision(...)`.
afterDisplayName(s, task) ==
  [s EXCEPT !.heap[task.acc].device = task.dev,
            !.heap[task.acc].deviceID = metaData[task.dev].serialNumber,
            !.heap[task.acc].model = task.model,
            !.queue = Append(Tail(@), [task EXCEPT !.pc = "fw"])]

\* The constructor of the presentation handler.  IrrigationSystem keeps the
\* persisted configured map of its accessory; ZoneValve is handed
\* irrigationAccessory!.context, which throws when no irrigation system
\* accessory was found.
attachHandler(s, task) ==
  [s EXCEPT !.handlers[task.acc] = @ + 1]

\* After `await this.FirmwareRevision(...)`: the rest of the method.
afterFirmwareRevision(s, task) ==
  LET device == devices[task.dev]
      s1 == [s EXCEPT
               !.queue = Tail(@),
               !.heap[task.acc].FirmwareRevision =
                  FirmwareRevision(metaData[task.dev], device),
               !.heap[task.acc].zoneId =
                  IF task.kind \in {"valve", "contact"} THEN task.zoneId ELSE @,
               !.heap[task.acc].programId =
                  IF task.kind = "pgm" THEN task.programId ELSE @]
      s2 == IF task.isNew THEN s1
            ELSE [s1 EXCEPT !.updated = @ \cup {task.acc}]
  IN IF task.kind = "valve" /\ task.irr = 0
     THEN [s2 EXCEPT !.rejected = @ + 1]
     ELSE LET s3 == attachHandler(s2, task)
              s4 == IF task.isNew
                    THEN LET e == externalOrPlatform(s3, device, task.acc)
                         IN [e EXCEPT !.accessories = Append(@, task.acc)]
                    ELSE s3
          IN IF task.kind = "sys"
             THEN \* return accessory: the promise resolves, and wakes
                  \* discoverDevices when it is parked on it
                  [s4 EXCEPT
                     !.irrigationAccessory = [settled |-> TRUE, value |-> task.acc],
                     !.awaiting = FALSE,
                     !.queue = IF s4.awaiting THEN Append(@, DiscoverTask) ELSE @]
             ELSE s4

\* --------------------------------------------------------- discoverDevices
\* The catch of the didFinishLaunching handler: whatever discoverDevices
\* throws ends the whole loop and is reported.
discoverFailed(s) ==
  [s EXCEPT !.disc.pc = "failed",
            !.errorLog = Append(@, "Failed to Discover Devices")]

\* The head of the loop over config.devices: the device handle is
\* constructed and init() is awaited.
discoverNext(s, d) ==
  IF d > Len(devices)
  THEN [s EXCEPT !.disc = [pc |-> "done", dev |-> d, zi |-> 0]]
  ELSE [s EXCEPT
          !.disc = [pc |-> "init", dev |-> d, zi |-> 0],
          !.handles = Append(@, [dev |-> d,
                                 address |-> devices[d].ipaddress,
                                 password |-> devices[d].password,
                                 refreshRate |-> options.refreshRate])]

RECURSIVE createProgramSwitches(_, _, _)
createProgramSwitches(s, d, i) ==
  IF i > Len(Programs) THEN s
  ELSE createProgramSwitches(createProgramSwitch(s, d, Programs[i]), d, i + 1)

\* After the zone loop: the program switches, the stop and delay switches,
\* the zone_enable listener, then the next device.
afterZones(s, d) ==
  LET s1 == createProgramSwitches(s, d, 1)
      s2 == createStopIrrigationSwitch(s1, d)
      s3 == createDelayIrrigationSwitch(s2, d)
      s4 == [s3 EXCEPT !.subscribed = @ \cup {d}]
  IN discoverNext(s4, d + 1)

\* The head of the zone loop: `await irrigationAccessory` parks
\* discoverDevices, behind the promise while it is pending.
zoneLoop(s, d, zi) ==
  IF zi > Len(metaData[d].zones)
  THEN afterZones(s, d)
  ELSE IF s.irrigationAccessory.settled
       THEN [s EXCEPT !.disc = [pc |-> "zones", dev |-> d, zi |-> zi],
                      !.queue = Append(@, DiscoverTask)]
       ELSE [s EXCEPT !.disc = [pc |-> "zones", dev |-> d, zi |-> zi],
                      !.awaiting = TRUE]

\* One turn of the zone loop, once irrigationAccessory has resolved.
zoneStep(s) ==
  LET d == s.disc.dev
      zoneId == metaData[d].zones[s.disc.zi]
      acc == s.irrigationAccessory.value
      s0 == [s EXCEPT !.queue = Tail(@)]
  IN IF acc = 0
     THEN discoverFailed(s0)   \* undefined.context: a TypeError
     ELSE LET map == s.heap[acc].configured
              configured == IF zoneId \in DOMAIN map THEN map[zoneId]
                            ELSE CONFIGURED
              s1 == IF configured = CONFIGURED
                    THEN createContactSensor(createZoneValve(s0, d, zoneId),
                                             d, zoneId)
                    ELSE s0
          IN zoneLoop(s1, d, s.disc.zi + 1)

\* a discovery that calls createLeakSensor before createIrrigationSystem
afterInitLeakFirst(s, d) ==
  LET s1 == createLeakSensor(s, d)
      s2 == createIrrigationSystem(s1, d)
  IN zoneLoop(s2, d, 1)

\* After `await rainbird.init()` resolved.
afterInit(s, d) ==
  LET s1 == createIrrigationSystem(s, d)
      s2 == createLeakSensor(s1, d)
  IN zoneLoop(s2, d, 1)

\* what the claims call shouldExist, per key
shouldExist(device, key) ==
  CASE key.kind = "sys"     -> registerIrrigationSystem(device)
    [] key.kind = "leak"    -> registerLeakSensor(device)
    [] key.kind = "valve"   -> registerZoneValve(device, key.zoneId)
    [] key.kind = "contact" -> registerContactSensor(device)
    [] key.kind = "pgm"     -> registerProgramSwitch(device, key.programId)
    [] key.kind = "stop"    -> registerStopIrrigationSwitch(device)
    [] OTHER                -> registerDelayIrrigationSwitch(device)

\* ------------------------------------------------------------- scenarios
\* The configurations, controllers and persisted accessories a run starts
\* from.
Address(i) == <<"host">> \o Str(i)
Serial(i) == <<"sn">> \o Str(i)
ModelName(i) == IF i % 2 = 1 THEN <<"ESP", "-", "TM2">> ELSE <<"ESP", "-", "ME3">>

HalfFlags ==
  {"showValveSensor", "showProgramASwitch", "showProgramCSwitch",
   "showStopIrrigationSwitch"}
FlagChoices == {{}, FlagNames, HalfFlags, FlagNames \ HalfFlags}

\* includeZones: '' (the default), '2', 'a', '1, 0'
FilterChoices == {<<>>, <<"2">>, <<"a">>, <<"1", ",", " ", "0">>}
FiltersFor(shown) ==
  IF "showZoneValve" \in shown THEN FilterChoices ELSE {<<>>}

\* the zone lists a controller reports: 1..n for n up to MaxZone
ZoneLists == {[i \in 1..n |-> i] : n \in 0..MaxZone}

CacheChoices == {"none", "all", "odd", "even"}
Cached(choice, i) ==
  CASE choice = "none" -> FALSE
    [] choice = "all"  -> TRUE
    [] choice = "odd"  -> i % 2 = 1
    [] choice = "sys"  -> i = 1
    [] OTHER           -> i % 2 = 0

Faults == {"none", "init", "noaddr", "nopw", "delete"}

RawDevice(i, shown, filter, delete, external, fault) ==
  [ipaddress    |-> IF fault = "noaddr" THEN <<>> ELSE Address(i),
   password     |-> IF fault = "nopw" THEN <<>> ELSE <<"secret">>,
   shown        |-> shown,
   unset        |-> IF shown = {} THEN FlagNames ELSE {},
   includeZones |-> filter,
   delete       |-> delete \/ fault = "delete",
   external     |-> external,
   firmware     |-> 0]

\* the controller behind entry i; init() fails for an entry without address
\* or password, and for a controller that cannot be reached; notifies tells
\* whether the controller emits zone_enable in this run
Controller(i, fault, zones, notifies) ==
  [ok           |-> fault \notin {"init", "noaddr", "nopw"},
   notifies     |-> notifies,
   model        |-> ModelName(i),
   serialNumber |-> Serial(i),
   version      |-> <<"4", ".", "66">>,
   zones        |-> zones]

\* an accessory a previous run persisted: its identifier is the one this run
\* derives, its context is stale
CachedAccessory(device, rainbird, key, choice) ==
  [UUID |-> KeyUuid(device, rainbird, key), device |-> 0,
   deviceID |-> <<"old">>, model |-> <<"old">>,
   FirmwareRevision |-> <<"old">>, zoneId |-> 0, programId |-> "",
   configured |-> IF key.kind # "sys" THEN EmptyMap
                  ELSE IF choice = "all"
                       THEN [z \in {MaxZone} |-> NOT_CONFIGURED]
                       ELSE [z \in {1} |-> CONFIGURED]]

RECURSIVE CachedOf(_, _, _, _)
CachedOf(device, rainbird, choice, i) ==
  IF i > Len(KeyOrder) THEN <<>>
  ELSE (IF Cached(choice, i)
        THEN <<CachedAccessory(device, rainbird, KeyOrder[i], choice)>>
        ELSE <<>>) \o CachedOf(device, rainbird, choice, i + 1)

RECURSIVE CachedAll(_, _, _, _)
CachedAll(devs, meta, choice, d) ==
  IF d > Len(devs) THEN <<>>
  ELSE CachedOf(devs[d], meta[d], choice, 1) \o CachedAll(devs, meta, choice, d + 1)

\* one device, every combination of its options, a silent controller
OneDevice ==
  UNION {
    {[raw         |-> <<RawDevice(1, shown, filter, delete, FALSE, "none")>>,
      meta        |-> <<Controller(1, "none", zones, FALSE)>>,
      refreshRate |-> 60,
      cached      |-> choice] :
        filter \in FiltersFor(shown), delete \in BOOLEAN,
        zones \in ZoneLists, choice \in CacheChoices}
    : shown \in FlagChoices}

\* one device whose controller emits zone_enable
NotifyFlagChoices == {{}, {"showValveSensor"}, {"showValveSensor", "showZoneValve"}}
NotifyingDevice ==
  {[raw         |-> <<RawDevice(1, shown, <<>>, delete, FALSE, "none")>>,
    meta        |-> <<Controller(1, "none", zones, TRUE)>>,
    refreshRate |-> 60,
    cached      |-> choice] :
      shown \in NotifyFlagChoices, delete \in BOOLEAN,
      zones \in ZoneLists, choice \in {"none", "all"}}

\* one device in external accessory mode
ExternalDevice ==
  {[raw         |-> <<RawDevice(1, FlagNames, <<>>, FALSE, TRUE, "none")>>,
    meta        |-> <<Controller(1, "none", zones, zones = <<>>)>>,
    refreshRate |-> 60,
    cached      |-> "none"] : zones \in ZoneLists}

\* several devices, at most one of them at fault, silent controllers
SeveralDevices ==
  UNION {
    {[raw         |-> [i \in 1..n |->
                         RawDevice(i, FlagNames, <<>>, FALSE, FALSE,
                                   IF i = bad THEN fault ELSE "none")],
      meta        |-> [i \in 1..n |->
                         Controller(i, IF i = bad THEN fault ELSE "none",
                                    <<1>>, FALSE)],
      refreshRate |-> rate,
      cached      |-> choice] :
        bad \in 1..n, fault \in Faults, rate \in {0, 60},
        choice \in {"none", "all"}}
    : n \in 2..MaxDevices}

\* two devices whose controllers emit zone_enable, at most one of them
\* unreachable
SeveralNotifying ==
  {[raw         |-> [i \in 1..2 |->
                       RawDevice(i, {"showValveSensor"}, <<>>, FALSE, FALSE,
                                 IF i = bad THEN "init" ELSE "none")],
    meta        |-> [i \in 1..2 |->
                       Controller(i, IF i = bad THEN "init" ELSE "none",
                                  <<1>>, TRUE)],
    refreshRate |-> 60,
    cached      |-> choice] :
      bad \in 0..2, choice \in {"none", "all"}}

Scenarios ==
  OneDevice \cup NotifyingDevice \cup ExternalDevice \cup SeveralDevices
    \cup SeveralNotifying

\* The state after the constructor: the configuration verified, nothing
\* restored yet; the host holds the persisted accessories.
Init ==
  \E sc \in Scenarios :
    LET v == verifyConfig(sc.raw, sc.refreshRate)
        objs == CachedAll(v.devices, sc.meta, sc.cached, 1)
    IN /\ devices = v.devices
       /\ options = v.options
       /\ metaData = sc.meta
       /\ errorLog = v.errors
       /\ heap = objs
       /\ cache = [i \in 1..Len(objs) |-> i]
       /\ accessories = <<>>
       /\ registered = 1..Len(objs)
       /\ published = {}
       /\ updated = {}
       /\ unregistered = <<>>
       /\ handlers = [i \in 1..Len(objs) |-> 0]
       /\ queue = <<>>
       /\ irrigationAccessory = [settled |-> FALSE, value |-> 0]
       /\ awaiting = FALSE
       /\ rejected = 0
       /\ disc = [pc |-> "idle", dev |-> 0, zi |-> 0]
       /\ handles = <<>>
       /\ subscribed = {}
       /\ notifications = <<>>
       /\ started = <<>>
       /\ calc = NoCalc

\* ---------------------------------------------------------------- actions
\* configureAccessory: the host hands over the next persisted accessory
ConfigureAccessory ==
  /\ disc.pc = "idle"
  /\ cache # <<>>
  /\ Commit([Cur EXCEPT !.accessories = Append(@, Head(cache)),
                        !.cache = Tail(@)])

\* didFinishLaunching, once every persisted accessory is restored:
\* discoverDevices starts
DidFinishLaunching ==
  /\ disc.pc = "idle"
  /\ cache = <<>>
  /\ Commit(discoverNext(Cur, 1))

\* rainbird.init() resolves with the metadata
InitResolve ==
  /\ disc.pc = "init"
  /\ queue = <<>>
  /\ metaData[disc.dev].ok
  /\ Commit(afterInit(Cur, disc.dev))

\* a discovery that goes on with the passes of a device whose init() rejected
InitRejectProceeds ==
  /\ disc.pc = "init"
  /\ queue = <<>>
  /\ ~metaData[disc.dev].ok
  /\ Commit(afterInit(Cur, disc.dev))

\* rainbird.init() rejects
InitReject ==
  /\ disc.pc = "init"
  /\ queue = <<>>
  /\ ~metaData[disc.dev].ok
  /\ Commit(discoverFailed(Cur))

\* the microtask at the head of the queue runs
ResumeAfterDisplayName ==
  /\ queue # <<>>
  /\ Head(queue).t = "pass"
  /\ Head(queue).pc = "name"
  /\ Commit(afterDisplayName(Cur, Head(queue)))

ResumeAfterFirmwareRevision ==
  /\ queue # <<>>
  /\ Head(queue).t = "pass"
  /\ Head(queue).pc = "fw"
  /\ Commit(afterFirmwareRevision(Cur, Head(queue)))

ResumeDiscover ==
  /\ queue # <<>>
  /\ Head(queue).t = "discover"
  /\ Commit(zoneStep(Cur))

\* the zone_enable listener of device d
Notification(d, zoneId, enabled) ==
  [dev |-> d, zoneId |-> zoneId, enabled |-> enabled]

ZoneEnabled ==
  \E d \in subscribed, zoneId \in Zones :
    /\ metaData[d].notifies
    /\ Len(notifications) < MaxNotify
    /\ Commit([createContactSensor(Cur, d, zoneId) EXCEPT
                 !.notifications = Append(@, Notification(d, zoneId, TRUE))])

\* a listener that removes the valve of the zone as well
ZoneDisabledRemovesValve ==
  \E d \in subscribed, zoneId \in Zones :
    /\ metaData[d].notifies
    /\ Len(notifications) < MaxNotify
    /\ Commit([removeZoneValve(removeContactSensor(Cur, d, zoneId), d, zoneId)
                 EXCEPT !.notifications =
                          Append(@, Notification(d, zoneId, FALSE))])

ZoneDisabled ==
  \E d \in subscribed, zoneId \in Zones :
    /\ metaData[d].notifies
    /\ Len(notifications) < MaxNotify
    /\ Commit([removeContactSensor(Cur, d, zoneId) EXCEPT
                 !.notifications = Append(@, Notification(d, zoneId, FALSE))])

Next ==
  \/ ConfigureAccessory
  \/ DidFinishLaunching
  \/ InitResolve
  \/ InitReject
  \/ ResumeAfterDisplayName
  \/ ResumeAfterFirmwareRevision
  \/ ResumeDiscover
  \/ ZoneEnabled
  \/ ZoneDisabled

Spec == Init /\ [][Next]_vars

\* --------------------------------------------- the functions on their own
\* The platform before anything was configured or restored; the
\* specifications below apply one function of it to inputs of a bounded set.
Idle ==
  /\ devices = <<>>
  /\ options = [refreshRate |-> DefaultRefreshRate]
  /\ metaData = <<>>
  /\ errorLog = <<>>
  /\ heap = <<>>
  /\ cache = <<>>
  /\ accessories = <<>>
  /\ registered = {}
  /\ published = {}
  /\ updated = {}
  /\ unregistered = <<>>
  /\ handlers = <<>>
  /\ queue = <<>>
  /\ irrigationAccessory = [settled |-> FALSE, value |-> 0]
  /\ awaiting = FALSE
  /\ rejected = 0
  /\ disc = [pc |-> "idle", dev |-> 0, zi |-> 0]
  /\ handles = <<>>
  /\ subscribed = {}
  /\ notifications = <<>>
  /\ started = <<>>

platform ==
  <<devices, options, metaData, cache, heap, accessories, registered,
    published, updated, unregistered, handlers, queue, irrigationAccessory,
    awaiting, rejected, disc, handles, subscribed, errorLog, notifications,
    started>>

\* the strings of at most n characters of an alphabet
Strings(alphabet, n) == UNION {[1..k -> alphabet] : k \in 0..n}

\* includeZones strings: digits, the separator, a blank, a letter
FilterAlphabet == {"0", "1", "2", ",", " ", "a"}

\* an includeZones string and a zone, not yet filtered
FilterInputs ==
  {[op |-> "input", includeZones |-> filter, zoneId |-> zoneId] :
     filter \in Strings(FilterAlphabet, MaxFilterLen), zoneId \in Zones}

InitFilter == Idle /\ calc \in FilterInputs

\* the condition createZoneValve registers under, for a device that shows
\* its zone valves
ApplyZoneFilter ==
  /\ calc.op = "input"
  /\ LET raw == RawDevice(1, {"showZoneValve"}, calc.includeZones, FALSE,
                          FALSE, "none")
         device == initialiseConfig(raw)
     IN calc' = [op |-> "registerZoneValve",
                 includeZones |-> calc.includeZones, zoneId |-> calc.zoneId,
                 result |-> registerZoneValve(device, calc.zoneId)]
  /\ UNCHANGED <<config, platform>>

SpecFilter == InitFilter /\ [][ApplyZoneFilter]_vars

\* the characters of a string that was built piece by piece
RECURSIVE text(_)
text(pieces) == IF pieces = <<>> THEN "" ELSE Head(pieces) \o text(Tail(pieces))

\* pieces a reported model string may be made of
ModelAlphabet == {"ESP", "-", "WR2", "valve", "1"}

\* a reported model and two accessories of the one device, not yet named
IdentifierInputs ==
  {[op |-> "input", model |-> model, k1 |-> k1, k2 |-> k2] :
     model \in Strings(ModelAlphabet, MaxModelLen), k1 \in AllKeys,
     k2 \in AllKeys}

InitIdentifier == Idle /\ calc \in IdentifierInputs

\* the strings the create... methods hash for the two accessories
DeriveIdentifiers ==
  /\ calc.op = "input"
  /\ LET device == [ipaddress |-> Address(1)]
         rainbird == [model |-> calc.model, serialNumber |-> Serial(1)]
     IN calc' = [op |-> "generate", model |-> calc.model,
                 k1 |-> calc.k1, k2 |-> calc.k2,
                 id1 |-> text(KeyUuid(device, rainbird, calc.k1)),
                 id2 |-> text(KeyUuid(device, rainbird, calc.k2))]
  /\ UNCHANGED <<config, platform>>

SpecIdentifier == InitIdentifier /\ [][DeriveIdentifiers]_vars

\* device.firmware: undefined (0) or set; the version the handle reports:
\* undefined (the empty string of the model) or set
FirmwareChoices == {0, 7}
VersionChoices == {<<>>, <<"4", ".", "66">>}

\* One pass run twice.  The platform holds one device whose discovery is
\* over; the registry holds its irrigation system accessory, alone or with
\* every other accessory of the device.  The pass of one accessory is
\* called, runs to its end, and is called again.
TwiceInputs ==
  {[raw    |-> <<[RawDevice(1, shown, <<>>, delete, external, "none")
                    EXCEPT !.firmware = firmware]>>,
    meta   |-> <<[Controller(1, "none", [i \in 1..MaxZone |-> i], FALSE)
                    EXCEPT !.version = version]>>,
    cached |-> choice,
    key    |-> key] :
      shown \in FlagChoices, delete \in BOOLEAN, external \in BOOLEAN,
      firmware \in FirmwareChoices, version \in VersionChoices,
      choice \in {"sys", "all"}, key \in AllKeys}

InitTwice ==
  \E in \in TwiceInputs :
    LET v == verifyConfig(in.raw, DefaultRefreshRate)
        objs == CachedAll(v.devices, in.meta, in.cached, 1)
    IN /\ devices = v.devices
       /\ options = v.options
       /\ metaData = in.meta
       /\ errorLog = v.errors
       /\ heap = objs
       /\ cache = <<>>
       /\ accessories = [i \in 1..Len(objs) |-> i]
       /\ registered = 1..Len(objs)
       /\ published = {}
       /\ updated = {}
       /\ unregistered = <<>>
       /\ handlers = [i \in 1..Len(objs) |-> 0]
       /\ queue = <<>>
       /\ irrigationAccessory = [settled |-> FALSE, value |-> 0]
       /\ awaiting = FALSE
       /\ rejected = 0
       /\ disc = [pc |-> "done", dev |-> 2, zi |-> 0]
       /\ handles = <<>>
       /\ subscribed = {}
       /\ notifications = <<>>
       /\ started = <<>>
       /\ calc = [op |-> "input", key |-> in.key]

\* the identifier a create... method derives
UuidOfKey(d, key) == KeyUuid(devices[d], metaData[d], key)

\* the create... method of an accessory
createAccessory(s, d, key) ==
  CASE key.kind = "sys"     -> createIrrigationSystem(s, d)
    [] key.kind = "leak"    -> createLeakSensor(s, d)
    [] key.kind = "valve"   -> createZoneValve(s, d, key.zoneId)
    [] key.kind = "contact" -> createContactSensor(s, d, key.zoneId)
    [] key.kind = "pgm"     -> createProgramSwitch(s, d, key.programId)
    [] key.kind = "stop"    -> createStopIrrigationSwitch(s, d)
    [] OTHER                -> createDelayIrrigationSwitch(s, d)

\* the first call of the pass
FirstPass ==
  /\ calc.op = "input"
  /\ Assign(createAccessory(Cur, 1, calc.key))
  /\ calc' = [op |-> "first", key |-> calc.key,
              existingAccessory |-> find(Cur, UuidOfKey(1, calc.key))]
  /\ UNCHANGED config

\* the second call, once the first has run to its end; what the registry and
\* the host held between the two is kept for comparison
SecondPass ==
  /\ calc.op = "first"
  /\ queue = <<>>
  /\ Assign(createAccessory(Cur, 1, calc.key))
  /\ calc' = [op |-> "second", key |-> calc.key,
              accessories |-> accessories, registered |-> registered,
              published |-> published, unregistered |-> unregistered,
              objects |-> Len(heap)]
  /\ UNCHANGED config

NextTwice ==
  \/ FirstPass
  \/ SecondPass
  \/ ResumeAfterDisplayName
  \/ ResumeAfterFirmwareRevision

SpecTwice == InitTwice /\ [][NextTwice]_vars

\* ------------------------------------------- validateAndCleanDisplayName
\* Characters by the classes the patterns tell apart: a letter (\p{L}), a
\* digit (\p{N}), the space, the apostrophe, and a hyphen for everything
\* else.
NameAlphabet == {"a", "1", " ", "'", "-"}
LetterOrNumber == {"a", "1"}

\* /^[\p{L}\p{N}][\p{L}\p{N} ']*[\p{L}\p{N}]$/u
validPattern(value) ==
  /\ Len(value) >= 2
  /\ value[1] \in LetterOrNumber
  /\ value[Len(value)] \in LetterOrNumber
  /\ \A i \in 2..(Len(value) - 1) : value[i] \in LetterOrNumber \cup {" ", "'"}

\* /[^\p{L}\p{N} ']/gu, one character
invalidCharsPattern(c) == c \notin LetterOrNumber \cup {" ", "'"}

validChar(c) == ~invalidCharsPattern(c)

\* value.replace(pattern, '') for a pattern without the g flag: the first
\* match only
replaceFirstInvalidChar(value) ==
  IF \A i \in 1..Len(value) : validChar(value[i]) THEN value
  ELSE LET i == CHOOSE j \in 1..Len(value) :
                  /\ invalidCharsPattern(value[j])
                  /\ \A k \in 1..(j - 1) : validChar(value[k])
       IN SubSeq(value, 1, i - 1) \o SubSeq(value, i + 1, Len(value))

\* value.replace(invalidCharsPattern, '')
replaceInvalidChars(value) == SelectSeq(value, validChar)

\* /^[^\p{L}\p{N}]+|[^\p{L}\p{N}]+$/gu matches somewhere
invalidStartEndPattern(value) ==
  /\ value # <<>>
  /\ (value[1] \notin LetterOrNumber \/ value[Len(value)] \notin LetterOrNumber)

RECURSIVE replaceInvalidStart(_)
\* the first alternative: the run of other characters at the start
replaceInvalidStart(value) ==
  IF value = <<>> \/ Head(value) \in LetterOrNumber THEN value
  ELSE replaceInvalidStart(Tail(value))

RECURSIVE replaceInvalidEnd(_)
\* the second alternative: the run of other characters at the end
replaceInvalidEnd(value) ==
  IF value = <<>> \/ value[Len(value)] \in LetterOrNumber THEN value
  ELSE replaceInvalidEnd(SubSeq(value, 1, Len(value) - 1))

\* a replacement that leaves the end of the value alone
replaceInvalidStartOnly(value) == replaceInvalidStart(value)

\* value.replace(invalidStartEndPattern, '')
replaceInvalidStartEnd(value) == replaceInvalidEnd(replaceInvalidStart(value))

validateAndCleanDisplayName(allowInvalidCharacters, value) ==
  IF allowInvalidCharacters THEN value
  ELSE IF ~validPattern(value)
       THEN LET v1 == IF \E i \in 1..Len(value) : invalidCharsPattern(value[i])
                      THEN replaceInvalidChars(value) ELSE value
            IN IF invalidStartEndPattern(v1)
               THEN replaceInvalidStartEnd(v1) ELSE v1
       ELSE value

\* the number of warnLog calls validateAndCleanDisplayName makes: one for a
\* value the pattern rejects, two more around each replacement
warnLog(allowInvalidCharacters, value) ==
  IF allowInvalidCharacters \/ validPattern(value) THEN 0
  ELSE LET invalidChars == \E i \in 1..Len(value) : invalidCharsPattern(value[i])
           v1 == IF invalidChars THEN replaceInvalidChars(value) ELSE value
       IN 1 + (IF invalidChars THEN 2 ELSE 0)
            + (IF invalidStartEndPattern(v1) THEN 2 ELSE 0)

\* a display name and the option, not yet cleaned
NameInputs ==
  {[op |-> "input", allowInvalidCharacters |-> allow, value |-> value] :
     allow \in BOOLEAN, value \in Strings(NameAlphabet, MaxNameLen)}

InitName == Idle /\ calc \in NameInputs

\* the name is cleaned
CleanName ==
  /\ calc.op = "input"
  /\ calc' = [op |-> "cleaned",
              allowInvalidCharacters |-> calc.allowInvalidCharacters,
              value |-> calc.value,
              result |-> validateAndCleanDisplayName(
                           calc.allowInvalidCharacters, calc.value),
              warnings |-> warnLog(calc.allowInvalidCharacters, calc.value)]
  /\ UNCHANGED <<config, platform>>

\* what came back is cleaned again
CleanNameAgain ==
  /\ calc.op = "cleaned"
  /\ calc' = [op |-> "cleaned again",
              allowInvalidCharacters |-> calc.allowInvalidCharacters,
              first |-> calc.value,
              value |-> calc.result,
              result |-> validateAndCleanDisplayName(
                           calc.allowInvalidCharacters, calc.result),
              warnings |-> warnLog(calc.allowInvalidCharacters, calc.result)]
  /\ UNCHANGED <<config, platform>>

NextName == CleanName \/ CleanNameAgain

SpecName == InitName /\ [][NextName]_vars

\* ----------------------------------------------------------- ProgramSwitch
\* The program switches of one device.  calc holds programSwitch.state of
\* each switch constructed so far and the last call made on one of them.
ProgramIds == {Programs[i] : i \in 1..Len(Programs)}

\* isProgramRunning(programId): <<>> for undefined, else the boolean
IsRunningAnswers == {<<>>, <<TRUE>>, <<FALSE>>}

\* a status handling that follows isInUse while the program state is unknown
parseStatusFollowsInUse(state, isRunning, isInUse) ==
  IF isRunning # <<>> THEN isRunning[1] ELSE isInUse

\* ProgramSwitch.parseStatus: the new programSwitch.state
parseStatus(state, isRunning, isInUse) ==
  IF isRunning # <<>> THEN isRunning[1]
  ELSE IF state /\ ~isInUse THEN FALSE
  ELSE state

InitSwitch ==
  /\ Idle
  /\ calc = [op |-> "none", constructed |-> {},
             state |-> [p \in ProgramIds |-> FALSE],
             programId |-> "", before |-> FALSE, isRunning |-> <<>>,
             isInUse |-> FALSE]

\* new ProgramSwitch(...): the state starts false and the status is parsed
ConstructSwitch ==
  \E p \in ProgramIds \ calc.constructed, isRunning \in IsRunningAnswers,
     isInUse \in BOOLEAN :
    /\ calc' = [op |-> "constructor", constructed |-> calc.constructed \cup {p},
                state |-> [calc.state EXCEPT
                             ![p] = parseStatus(FALSE, isRunning, isInUse)],
                programId |-> p, before |-> FALSE, isRunning |-> isRunning,
                isInUse |-> isInUse]
    /\ UNCHANGED <<config, platform>>

\* ProgramSwitch.setOn(value)
setOn ==
  \E p \in calc.constructed, value \in BOOLEAN :
    /\ calc' = [calc EXCEPT !.op = "setOn", !.state[p] = value,
                            !.programId = p, !.before = calc.state[p],
                            !.isRunning = <<>>, !.isInUse = FALSE]
    /\ UNCHANGED <<config, platform>>

\* the 'status' event of the handle, as one switch handles it
StatusEvent ==
  \E p \in calc.constructed, isRunning \in IsRunningAnswers,
     isInUse \in BOOLEAN :
    /\ calc' = [calc EXCEPT
                  !.op = "status",
                  !.state[p] = parseStatus(calc.state[p], isRunning, isInUse),
                  !.programId = p, !.before = calc.state[p],
                  !.isRunning = isRunning, !.isInUse = isInUse]
    /\ UNCHANGED <<config, platform>>

NextSwitch == ConstructSwitch \/ setOn \/ StatusEvent

SpecSwitch == InitSwitch /\ [][NextSwitch]_vars

\* ---------------------------------------------------- StopIrrigationSwitch
\* The stop switch of one device.  calc holds stopIrrigationSwitch.state, the
\* value last pushed to the On characteristic, the calls made on the handle
\* so far, the stopIrrigation() calls not yet settled, and the 500 ms timers
\* not yet fired.
MaxCommands == 4
MaxTimers == 2

InitStop ==
  /\ Idle
  /\ calc = [op |-> "none", constructed |-> FALSE, state |-> FALSE,
             on |-> FALSE, commands |-> <<>>, pending |-> 0, timers |-> 0,
             value |-> FALSE, returned |-> FALSE]

\* StopIrrigationSwitch.updateHomeKitCharacteristics: state is never
\* undefined, so the characteristic is updated with it
stopUpdateHomeKitCharacteristics(c) == [c EXCEPT !.on = c.state]

\* a setOn that keeps the value it is given
stopSetOnLatching(c, value) ==
  IF value
  THEN [c EXCEPT !.op = "setOn", !.value = value, !.state = value,
                 !.commands = @ \o <<"deactivateAllZones", "stopIrrigation">>,
                 !.pending = @ + 1]
  ELSE [c EXCEPT !.op = "setOn", !.value = value, !.state = value,
                 !.timers = @ + 1]

\* StopIrrigationSwitch.setOn(value), up to its await: with a true value the
\* two calls are made and the method waits for stopIrrigation(); with a false
\* value the timer is set at once
stopSetOn(c, value) ==
  IF value
  THEN [c EXCEPT !.op = "setOn", !.value = value,
                 !.commands = @ \o <<"deactivateAllZones", "stopIrrigation">>,
                 !.pending = @ + 1]
  ELSE [c EXCEPT !.op = "setOn", !.value = value, !.timers = @ + 1]

\* new StopIrrigationSwitch(...)
ConstructStop ==
  /\ ~calc.constructed
  /\ calc' = stopUpdateHomeKitCharacteristics(
               [calc EXCEPT !.op = "constructor", !.constructed = TRUE,
                            !.state = FALSE, !.on = FALSE])
  /\ UNCHANGED <<config, platform>>

StopSetOn ==
  \E value \in BOOLEAN :
    /\ calc.constructed
    /\ calc.pending + calc.timers < MaxTimers
    /\ value => Len(calc.commands) + 2 <= MaxCommands
    /\ calc' = stopSetOn(calc, value)
    /\ UNCHANGED <<config, platform>>

\* stopIrrigation() resolves: setOn goes on and sets its timer
StopIrrigationResolves ==
  /\ calc.pending > 0
  /\ calc' = [calc EXCEPT !.op = "resolved", !.pending = @ - 1,
                          !.timers = @ + 1]
  /\ UNCHANGED <<config, platform>>

\* stopIrrigation() rejects: setOn ends without a timer
StopIrrigationRejects ==
  /\ calc.pending > 0
  /\ calc' = [calc EXCEPT !.op = "rejected", !.pending = @ - 1]
  /\ UNCHANGED <<config, platform>>

\* a timer of setOn fires
StopTimer ==
  /\ calc.timers > 0
  /\ calc' = stopUpdateHomeKitCharacteristics(
               [calc EXCEPT !.op = "timer", !.timers = @ - 1])
  /\ UNCHANGED <<config, platform>>

\* the 'status' event of the handle: parseStatus only logs
StopStatusEvent ==
  /\ calc.constructed
  /\ calc' = stopUpdateHomeKitCharacteristics([calc EXCEPT !.op = "status"])
  /\ UNCHANGED <<config, platform>>

\* the onGet handler of the On characteristic
StopOnGet ==
  /\ calc.constructed
  /\ Len(calc.commands) < MaxCommands
  /\ calc' = [calc EXCEPT !.op = "onGet",
                          !.commands = Append(@, "refreshStatus"),
                          !.returned = calc.state]
  /\ UNCHANGED <<config, platform>>

NextStop ==
  \/ ConstructStop
  \/ StopSetOn
  \/ StopIrrigationResolves
  \/ StopIrrigationRejects
  \/ StopTimer
  \/ StopStatusEvent
  \/ StopOnGet

SpecStop == InitStop /\ [][NextStop]_vars

\* --------------------------------------------------- DelayIrrigationSwitch
\* The delay switch of one device and its controller.  calc holds the
\* configured irrigationDelay, the delay the controller stores, the
\* setIrrigationDelay() calls in flight, the value last pushed to the On
\* characteristic, and the last set and read with the step before them.
MaxDelay == 2
MaxPending == 2
DefaultIrrigationDelay == 1

\* device.irrigationDelay ?? 1: <<>> stands for an entry without the key
irrigationDelayOf(raw) == IF raw = <<>> THEN DefaultIrrigationDelay ELSE raw[1]

RawDelays == {<<>>} \cup {<<n>> : n \in 0..MaxDelay}

DelayInputs ==
  {[op |-> "input", after |-> "none", constructed |-> FALSE,
    irrigationDelay |-> irrigationDelayOf(raw), delay |-> delay,
    pending |-> <<>>, on |-> FALSE, value |-> FALSE, read |-> 0,
    returned |-> FALSE] :
      raw \in RawDelays, delay \in 0..MaxDelay}

InitDelay == Idle /\ calc \in DelayInputs

\* getIrrigationDelay(): the delay the controller stores, or, while a
\* setIrrigationDelay() is in flight, the delay it will store
getIrrigationDelay(c) ==
  {c.delay} \cup
    (IF c.pending = <<>> THEN {} ELSE {c.pending[Len(c.pending)]})

\* an onSet that asks for one day whatever the configuration says
delayOnSetOneDay(c, value) ==
  [c EXCEPT !.op = "onSet", !.after = c.op, !.value = value,
            !.pending = Append(@, IF value THEN 1 ELSE 0)]

\* the onSet handler of the On characteristic, up to its await
delayOnSet(c, value) ==
  [c EXCEPT !.op = "onSet", !.after = c.op, !.value = value,
            !.pending = Append(@, IF value THEN c.irrigationDelay ELSE 0)]

\* the onGet handler of the On characteristic, answered with delay
delayOnGet(c, delay) ==
  [c EXCEPT !.op = "onGet", !.after = c.op, !.read = delay,
            !.returned = delay > 0]

\* DelayIrrigationSwitch.updateHomeKitCharacteristics, answered with delay
delayUpdateHomeKitCharacteristics(c, delay) ==
  [c EXCEPT !.op = "update", !.after = c.op, !.on = delay > 0]

\* new DelayIrrigationSwitch(...)
ConstructDelay ==
  /\ ~calc.constructed
  /\ calc' = [calc EXCEPT !.op = "constructor", !.after = calc.op,
                          !.constructed = TRUE, !.on = FALSE]
  /\ UNCHANGED <<config, platform>>

DelayOnSet ==
  \E value \in BOOLEAN :
    /\ calc.constructed
    /\ Len(calc.pending) < MaxPending
    /\ calc' = delayOnSet(calc, value)
    /\ UNCHANGED <<config, platform>>

\* the controller stores the delay of the oldest call in flight
SetIrrigationDelayResolves ==
  /\ calc.pending # <<>>
  /\ calc' = [calc EXCEPT !.op = "stored", !.after = calc.op,
                          !.delay = Head(calc.pending),
                          !.pending = Tail(@)]
  /\ UNCHANGED <<config, platform>>

\* the oldest call in flight fails: the controller keeps its delay
SetIrrigationDelayRejects ==
  /\ calc.pending # <<>>
  /\ calc' = [calc EXCEPT !.op = "rejected", !.after = calc.op,
                          !.pending = Tail(@)]
  /\ UNCHANGED <<config, platform>>

DelayOnGet ==
  \E delay \in getIrrigationDelay(calc) :
    /\ calc.constructed
    /\ calc' = delayOnGet(calc, delay)
    /\ UNCHANGED <<config, platform>>

\* the hourly timer
DelayInterval ==
  \E delay \in getIrrigationDelay(calc) :
    /\ calc.constructed
    /\ calc' = delayUpdateHomeKitCharacteristics(calc, delay)
    /\ UNCHANGED <<config, platform>>

NextDelay ==
  \/ ConstructDelay
  \/ DelayOnSet
  \/ SetIrrigationDelayResolves
  \/ SetIrrigationDelayRejects
  \/ DelayOnGet
  \/ DelayInterval

SpecDelay == InitDelay /\ [][NextDelay]_vars

\* ------------------------------------------------------------------ claims
Range(seq) == {seq[i] : i \in 1..Len(seq)}

\* the entries of this.accessories that carry an identifier
Records(uuid) ==
  {i \in 1..Len(accessories) : heap[accessories[i]].UUID = uuid}

\* the host knows an accessory with the identifier
HostHas(uuid) == \E a \in registered \cup published : heap[a].UUID = uuid

\* the identifiers derived for a device, and the accessory objects carrying them
UuidOf(d, k) == KeyUuid(devices[d], metaData[d], k)
UuidsOf(d) == {UuidOf(d, k) : k \in AllKeys}
Objects(d) ==
  LET uuids == UuidsOf(d) IN {a \in 1..Len(heap) : heap[a].UUID \in uuids}

\* every pass started so far has run to its end
Quiet == queue = <<>> /\ ~awaiting

\* discoverDevices has gone through device d and its passes are over
Completed(d) == Quiet /\ disc.pc \in {"init", "done", "failed"} /\ disc.dev > d

\* the discovery of d is over: completed, or ended by an exception it raised
\* after init() succeeded
Ended(d) ==
  \/ Completed(d)
  \/ Quiet /\ disc.pc = "failed" /\ disc.dev = d /\ metaData[d].ok

\* the irrigation system record of d does not mark zone z as not configured
ConfiguredZone(d, z) ==
  \A a \in 1..Len(heap) :
    heap[a].UUID = UuidOf(d, SysKey) =>
      (z \notin DOMAIN heap[a].configured \/ heap[a].configured[z] = CONFIGURED)

\* the keys C1 speaks of: every kind, every reported configured zone, every
\* program
ReportedKeys(d) ==
  {k \in AllKeys :
     k.kind \in {"valve", "contact"} =>
       k.zoneId \in Range(metaData[d].zones) /\ ConfiguredZone(d, k.zoneId)}

\* C1: once the discovery of a device whose init() succeeded is over (and no
\* notification was handled), the record of every kind, reported configured
\* zone and program is known to the host if and only if shouldExist holds.
C1_RegisteredIffShouldExist ==
  \A d \in 1..Len(devices) :
    (Ended(d) /\ metaData[d].ok /\ notifications = <<>>) =>
      \A k \in ReportedKeys(d) :
        HostHas(UuidOf(d, k)) <=> shouldExist(devices[d], k)

\* C2: in every reachable state no two entries of this.accessories share a
\* UUID.
C2_NoDuplicateIdentifiers ==
  \A i, j \in 1..Len(accessories) :
    heap[accessories[i]].UUID = heap[accessories[j]].UUID => i = j

\* the step handles a zone_enable(z, false) notification
DisableStep ==
  /\ Len(notifications') = Len(notifications) + 1
  /\ ~notifications'[Len(notifications')].enabled

\* C3: a step in which a reconciliation pass tells the host to unregister a
\* record leaves this.accessories without any entry of that identifier.
C3_RemovedThroughRegistry ==
  [][~DisableStep =>
       \A i \in (Len(unregistered) + 1)..Len(unregistered') :
         \A j \in 1..Len(accessories') :
           heap'[accessories'[j]].UUID # heap'[unregistered'[i]].UUID]_vars

\* C4: once the discovery of a device with delete = true is over, none of the
\* accessories of that device is registered with the host.
C4_DeletionDominance ==
  \A d \in 1..Len(devices) :
    (devices[d].delete /\ metaData[d].ok /\ Ended(d)) =>
      Objects(d) \cap registered = {}

\* C5: once the discovery of a device has completed (and no notification was
\* handled), there is no valve or contact sensor record, at the host or in
\* this.accessories, for a zone the controller did not report.
C5_StaleZoneRemoved ==
  \A d \in 1..Len(devices) :
    (Completed(d) /\ notifications = <<>>) =>
      \A z \in Zones \ Range(metaData[d].zones) :
        \A k \in {ValveKey(z), ContactKey(z)} :
          ~HostHas(UuidOf(d, k)) /\ Records(UuidOf(d, k)) = {}

\* C6: when the discovery of one device has failed, a device handle has
\* still been constructed for every entry of config.devices.
C6_FailureIsolation ==
  disc.pc = "failed" =>
    \A d \in 1..Len(devices) : \E i \in 1..Len(handles) : handles[i].dev = d

\* C7: for a device whose init() fails, no accessory is created, updated or
\* removed: every accessory object carrying one of its identifiers is a
\* persisted one, still registered, with the context it was persisted with,
\* never passed to updatePlatformAccessories or unregisterPlatformAccessories
\* and without a handler.
C7_FailedInitLeavesRecords ==
  \A d \in 1..Len(devices) :
    ~metaData[d].ok =>
      LET removed == Range(unregistered)
      IN \A a \in Objects(d) :
           /\ a \in registered
           /\ a \notin published
           /\ a \notin updated
           /\ a \notin removed
           /\ handlers[a] = 0
           /\ heap[a].deviceID = <<"old">>
           /\ heap[a].model = <<"old">>
           /\ heap[a].FirmwareRevision = <<"old">>
           /\ Cardinality(Records(heap[a].UUID)) <= 1

\* init() of a device with restored accessories has rejected
C7_Witness ==
  /\ disc.pc = "failed"
  /\ ~metaData[disc.dev].ok
  /\ Objects(disc.dev) # {}
  /\ Objects(disc.dev) \subseteq Range(accessories)

\* C8: no device handle is constructed for an entry of config.devices that
\* lacks an address or a password.
C8_IncompleteEntrySkipped ==
  \A i \in 1..Len(handles) :
    /\ devices[handles[i].dev].ipaddress # <<>>
    /\ devices[handles[i].dev].password # <<>>

\* C9: right after a zone_enable(z, false) notification is handled, neither
\* this.accessories nor the host's registered platform accessories hold a
\* contact sensor record of zone z.
C9_DisabledZoneRemoved ==
  [][DisableStep =>
       LET n == notifications'[Len(notifications')]
           uuid == UuidOf(n.dev, ContactKey(n.zoneId))
       IN /\ \A j \in 1..Len(accessories') : heap'[accessories'[j]].UUID # uuid
          /\ \A a \in registered' : heap'[a].UUID # uuid]_vars

\* C10: once every pass is over, a zone_enable(z, true) notification that is
\* the last one of its zone, for a device with delete = false and
\* showValveSensor = true, has left exactly one contact sensor record of z in
\* this.accessories, known to the host.
C10_EnabledZoneRegisteredOnce ==
  \A n \in 1..Len(notifications) :
    LET e == notifications[n]
        device == devices[e.dev]
        uuid == UuidOf(e.dev, ContactKey(e.zoneId))
    IN (/\ e.enabled
        /\ ~device.delete
        /\ device.flags["showValveSensor"]
        /\ Quiet
        /\ \A m \in (n + 1)..Len(notifications) :
             notifications[m].dev # e.dev \/ notifications[m].zoneId # e.zoneId)
       => /\ Cardinality(Records(uuid)) = 1
          /\ \A i \in Records(uuid) : accessories[i] \in registered \cup published

\* the accessory objects a step creates
Created == (Len(heap) + 1)..Len(heap')

\* C11: a step creates a valve or contact sensor accessory of zone z only if
\* the irrigation system record of the device does not mark z as not
\* configured.
C11_CreatedOnlyIfConfigured ==
  [][\A a \in Created :
       \A d \in 1..Len(devices) :
         \A z \in Zones :
           heap'[a].UUID \in {UuidOf(d, ValveKey(z)), UuidOf(d, ContactKey(z))}
             => ConfiguredZone(d, z)]_vars

\* the passes that are suspended at an await
Suspended == {i \in 1..Len(queue) : queue[i].t = "pass"}

\* C12: while the irrigation system pass of a device is suspended, the
\* zone_enable listener of the device is not subscribed and no valve or
\* contact sensor pass of the device has started.
C12_IrrigationSystemFirst ==
  \A i \in Suspended :
    queue[i].kind = "sys" =>
      /\ queue[i].dev \notin subscribed
      /\ \A j \in Suspended :
           queue[j].dev = queue[i].dev => queue[j].kind \notin {"valve", "contact"}

\* C13: no two suspended passes work on the same identifier.
C13_OnePassPerIdentifier ==
  \A i, j \in Suspended :
    heap[queue[i].acc].UUID = heap[queue[j].acc].UUID => i = j

\* the visibility flag of the kind of a key; the irrigation system has none
Visible(device, k) ==
  CASE k.kind = "leak"    -> device.flags["showRainSensor"]
    [] k.kind = "valve"   -> device.flags["showZoneValve"]
    [] k.kind = "contact" -> device.flags["showValveSensor"]
    [] k.kind = "pgm"     -> showProgramSwitch(device, k.programId)
    [] k.kind = "stop"    -> device.flags["showStopIrrigationSwitch"]
    [] k.kind = "delay"   -> device.flags["showDelayIrrigationSwitch"]
    [] OTHER              -> TRUE

\* the accessory objects a step of the platform creates, appends to
\* this.accessories or hands to the host
Introduced ==
  Created \cup (registered' \ registered) \cup (published' \ published)
    \cup {accessories'[i] : i \in (Len(accessories) + 1)..Len(accessories')}

\* C14: no step other than the restoring of a persisted accessory creates,
\* appends or registers an accessory of a kind whose visibility flag is false
\* for its device.
C14_VisibilityGating ==
  [][cache' = cache =>
       \A a \in Introduced :
         \A d \in 1..Len(devices) :
           \A k \in AllKeys :
             heap'[a].UUID = UuidOf(d, k) => Visible(devices[d], k)]_vars

\* a device that hides its contact sensors has handled zone_enable(z, true),
\* its discovery went through reported zones, and every pass is over
C14_Witness ==
  /\ Quiet
  /\ disc.pc = "done"
  /\ \E n \in 1..Len(notifications) :
       /\ notifications[n].enabled
       /\ ~devices[notifications[n].dev].flags["showValveSensor"]
       /\ ~devices[notifications[n].dev].delete
       /\ metaData[notifications[n].dev].zones # <<>>
       /\ \E a \in registered : heap[a].UUID = UuidOf(notifications[n].dev, SysKey)

\* the entries of an includeZones string, as written between the commas
Entries(filter) == Range(split(filter))

\* an entry written as an integer: digits only, at least one
Integer(entry) == entry # <<>> /\ \A i \in 1..Len(entry) : entry[i] \in Digits

Filtered == calc.op = "registerZoneValve"

\* C15: with an includeZones string that is a comma-separated list of
\* integers, a zone is eligible for a valve exactly when the list holds 0 or
\* the zone's number; "0" makes every zone eligible and "1,2" exactly the
\* zones 1 and 2.
C15_ZoneEligibility ==
  Filtered /\ (\A e \in Entries(calc.includeZones) : Integer(e)) =>
    LET list == {Decimal(e) : e \in Entries(calc.includeZones)}
    IN /\ calc.result <=> (0 \in list \/ calc.zoneId \in list)
       /\ calc.includeZones = <<"0">> => calc.result
       /\ calc.includeZones = <<"1", ",", "2">> =>
            (calc.result <=> calc.zoneId \in {1, 2})

C15_Witness ==
  Filtered /\ calc.includeZones = <<"0">> /\ calc.zoneId = MaxZone /\ calc.result

\* C16: an entry of the includeZones string that is no integer (empty, blank
\* or other text) matches no zone: a zone is eligible for a valve only
\* through an entry that is written 0 or written as the zone's own number.
C16_MalformedEntryNeverMatches ==
  Filtered /\ calc.result =>
    \E e \in Entries(calc.includeZones) :
      Integer(trim(e)) /\ Decimal(trim(e)) \in {0, calc.zoneId}

Derived == calc.op = "generate"

\* C17: the identifier strings of one device's accessories (irrigation
\* system, leak sensor, valve and contact sensor of each zone, program
\* switches, stop and delay switch) are pairwise distinct whatever model the
\* controller reports, and the same accessory always gets the same string.
C17_IdentifiersDistinct ==
  Derived => (calc.id1 = calc.id2 <=> calc.k1 = calc.k2)

\* C18: a pass called a second time, after the first call ran to its end and
\* with the same device and metadata, leaves the registry as the first call
\* left it, creates no accessory and makes no register, publish or
\* unregister call to the host.
C18_SecondPassChangesNothing ==
  calc.op = "second" =>
    /\ accessories = calc.accessories
    /\ Len(heap) = calc.objects
    /\ registered = calc.registered
    /\ published = calc.published
    /\ unregistered = calc.unregistered

\* C19: with allowInvalidCharacters unset, cleaning a name that was already
\* cleaned gives it back unchanged.
C19_CleanIsIdempotent ==
  calc.op = "cleaned again" /\ ~calc.allowInvalidCharacters =>
    calc.result = calc.value

\* a name that lost characters the first time and none the second
C19_Witness ==
  /\ calc.op = "cleaned again"
  /\ ~calc.allowInvalidCharacters
  /\ calc.first = <<"-", "a", "'", "1">>
  /\ calc.value = <<"a", "'", "1">>
  /\ calc.result = calc.value

Cleaned == calc.op = "cleaned" /\ ~calc.allowInvalidCharacters

\* the rule in words: the value starts and ends with a letter or digit, and
\* every character between is a letter, a digit, a space or an apostrophe
StartsAndEndsWell(value) ==
  /\ value # <<>>
  /\ value[1] \in LetterOrNumber
  /\ value[Len(value)] \in LetterOrNumber
  /\ \A i \in 1..Len(value) : validChar(value[i])

C21_OnePassInFlight ==
  \A i, j \in Suspended : queue[i].dev = queue[j].dev => i = j

\* the create... calls made for device d so far, in order
StartedOf(d) ==
  LET calls == SelectSeq(started, LAMBDA c : c.dev = d)
  IN [i \in 1..Len(calls) |-> calls[i].key]

RECURSIVE ZoneOrder(_, _)
\* valve then contact sensor, for each reported zone that the irrigation
\* system record does not mark as not configured, in reported order
ZoneOrder(d, zi) ==
  IF zi > Len(metaData[d].zones) THEN <<>>
  ELSE LET zoneId == metaData[d].zones[zi]
       IN (IF ConfiguredZone(d, zoneId)
           THEN <<ValveKey(zoneId), ContactKey(zoneId)>> ELSE <<>>)
            \o ZoneOrder(d, zi + 1)

DiscoveryOrder(d) ==
  <<SysKey, LeakKey>> \o ZoneOrder(d, 1)
    \o [i \in 1..Len(Programs) |-> ProgramKey(Programs[i])]
    \o <<StopKey, DelayKey>>

\* no zone_enable notification of device d has been handled
Silent(d) == \A n \in 1..Len(notifications) : notifications[n].dev # d

\* discoverDevices has gone past device d
Passed(d) == disc.pc \in {"init", "done", "failed"} /\ disc.dev > d

\* C22: for a device that is not deleted and whose init() succeeded,
\* discovery starts the passes in a fixed order, each once: irrigation
\* system, leak sensor, valve then contact sensor of each reported
\* configured zone in reported order, program switches A to D, stop switch,
\* delay switch.
C22_FixedPassOrder ==
  \A d \in 1..Len(devices) :
    ~devices[d].delete /\ metaData[d].ok /\ Silent(d) =>
      LET calls == StartedOf(d)
          order == DiscoveryOrder(d)
      IN /\ Len(calls) <= Len(order)
         /\ calls = SubSeq(order, 1, Len(calls))
         /\ Passed(d) => calls = order

\* discovery went through a device that reports two zones, the second of
\* them marked as not configured
C22_Witness ==
  /\ Passed(1)
  /\ ~devices[1].delete
  /\ Silent(1)
  /\ Len(metaData[1].zones) = MaxZone
  /\ ~ConfiguredZone(1, MaxZone)
  /\ StartedOf(1) = DiscoveryOrder(1)

\* the first call found an accessory that should exist, and has run to its
\* end
Restored ==
  /\ calc.op = "first"
  /\ queue = <<>>
  /\ calc.existingAccessory # 0
  /\ shouldExist(devices[1], calc.key)

\* C23: a pass that restores an existing accessory overwrites whatever its
\* context held: device, deviceID, model and zoneId or programId are those
\* of the current device and metadata, FirmwareRevision is the first defined
\* of device.firmware, the version of the handle and the plugin version, and
\* the host is told to update the accessory.
C23_RestoreOverwritesContext ==
  Restored =>
    LET context == heap[calc.existingAccessory]
        device == devices[1]
        rainbird == metaData[1]
    IN /\ context.device = 1
       /\ context.deviceID = rainbird.serialNumber
       /\ context.model = KeyModel(rainbird, calc.key)
       /\ calc.key.kind \in {"valve", "contact"} =>
            context.zoneId = calc.key.zoneId
       /\ calc.key.kind = "pgm" => context.programId = calc.key.programId
       /\ context.FirmwareRevision =
            (CASE device.firmware # 0    -> Str(device.firmware)
               [] rainbird.version # <<>> -> rainbird.version
               [] OTHER                   -> PluginVersion)
       /\ calc.existingAccessory \in updated

\* a restored valve of a device that sets its firmware while the handle
\* reports a version
C23_Witness ==
  /\ Restored
  /\ calc.key = ValveKey(1)
  /\ devices[1].firmware # 0
  /\ metaData[1].version # <<>>
  /\ heap[calc.existingAccessory].FirmwareRevision = Str(devices[1].firmware)

\* the first call finds no accessory and none should exist
NothingToDo ==
  /\ calc.op = "input"
  /\ calc'.op = "first"
  /\ calc'.existingAccessory = 0
  /\ ~shouldExist(devices[1], calc.key)

\* C24: a pass that finds no accessory where none should exist changes
\* nothing: the registry, the context of every accessory and what the host
\* holds stay as they are, no handler is attached and nothing is left to run.
C24_NothingToDoChangesNothing ==
  [][NothingToDo =>
       UNCHANGED <<heap, accessories, registered, published, updated,
                   unregistered, handlers, queue>>]_vars

\* the leak sensor pass of a device that does not show its rain sensor, with
\* no leak sensor accessory in the registry
C24_Witness ==
  /\ calc.op = "first"
  /\ calc.key = LeakKey
  /\ calc.existingAccessory = 0
  /\ ~shouldExist(devices[1], LeakKey)
  /\ ~devices[1].delete
  /\ queue = <<>>

\* C25: every device handle discovery constructs is given the configured
\* platform refresh rate, or the default when none is configured, also when
\* the verification of the configuration reported an error.
C25_HandleRefreshRate ==
  \A i \in 1..Len(handles) :
    handles[i].refreshRate =
      IF options.refreshRate = 0 THEN DefaultRefreshRate
      ELSE options.refreshRate

\* C26: validateAndCleanDisplayName warns only when it corrects: a call that
\* returns its input unchanged has logged no warning, so cleaning a value a
\* previous call returned is silent.
C26_UnchangedMeansSilent ==
  /\ calc.op \in {"cleaned", "cleaned again"}
  /\ ~calc.allowInvalidCharacters
  /\ calc.result = calc.value
  => calc.warnings = 0

\* C27: after a program switch handled a status event, its state is
\* isProgramRunning(programId) when that is defined; when it is undefined
\* the state is as before, except that a switch that was on is off when the
\* controller is not in use.  So an unknown program state never turns a
\* switch on.
C27_StatusSetsSwitch ==
  calc.op = "status" =>
    LET state == calc.state[calc.programId]
    IN /\ calc.isRunning # <<>> => state = calc.isRunning[1]
       /\ calc.isRunning = <<>> /\ calc.before /\ ~calc.isInUse => ~state
       /\ calc.isRunning = <<>> /\ ~(calc.before /\ ~calc.isInUse) =>
            state = calc.before
       /\ calc.isRunning = <<>> /\ ~calc.before => ~state

\* a switch that was on hears, without a program state, that the controller
\* is not in use
C27_Witness ==
  /\ calc.op = "status"
  /\ calc.isRunning = <<>>
  /\ calc.before
  /\ ~calc.isInUse
  /\ ~calc.state[calc.programId]

\* notification n is the last one handled for its zone and device
LastOfZone(n) ==
  \A m \in (n + 1)..Len(notifications) :
    \/ notifications[m].dev # notifications[n].dev
    \/ notifications[m].zoneId # notifications[n].zoneId

\* C28: when zone_enable(z, false) is the last notification of zone z, then
\* once every pass in flight is over this.accessories holds no contact sensor
\* record of z, also when a contact sensor pass of z was suspended while the
\* notification was handled.
C28_DisabledZoneStaysRemoved ==
  \A n \in 1..Len(notifications) :
    ~notifications[n].enabled /\ LastOfZone(n) /\ Quiet =>
      Records(UuidOf(notifications[n].dev,
                     ContactKey(notifications[n].zoneId))) = {}

\* C29: in one run the host is told at most once to unregister an accessory.
C29_UnregisteredAtMostOnce ==
  \A i, j \in 1..Len(unregistered) : unregistered[i] = unregistered[j] => i = j

\* C30: every accessory has at most one handler subscribed to the status
\* events of its device, and an accessory the host was told to unregister
\* has none; a repeated zone_enable(z, true) adds no handler to an accessory
\* that has one.
C30_OneHandlerPerAccessory ==
  LET removed == Range(unregistered)
  IN \A a \in 1..Len(heap) :
       /\ handlers[a] <= 1
       /\ a \in removed => handlers[a] = 0

\* C31: for a device whose init() succeeded, discoverDevices raises no
\* exception of its own: the irrigation system accessory is defined whenever
\* the zone loop reads its configured map and whenever a valve pass reads its
\* context, whatever device.delete and the reported zone list are.
C31_IrrigationAccessoryDefined ==
  /\ disc.pc = "failed" => ~metaData[disc.dev].ok
  /\ rejected = 0

\* the valve accessories among the first n objects
ValveObjects(n) ==
  LET uuids == {UuidOf(d, ValveKey(z)) : d \in 1..Len(devices), z \in Zones}
  IN {a \in 1..n : heap[a].UUID \in uuids}

\* a step of the zone_enable listener: the notification is handled, or a
\* contact sensor pass resumes
ListenerStep ==
  \/ Len(notifications') > Len(notifications)
  \/ /\ queue # <<>>
     /\ Head(queue).t = "pass"
     /\ Head(queue).kind = "contact"
     /\ queue' # queue

\* C32: handling a zone_enable notification never creates, updates or
\* removes a valve accessory: the valve accessories in this.accessories and
\* at the host stay as they are, also for a zone that was disabled.
C32_ListenerLeavesValves ==
  [][ListenerStep =>
       LET valves == ValveObjects(Len(heap))
       IN /\ \A a \in (Len(heap) + 1)..Len(heap') :
               \A d \in 1..Len(devices), z \in Zones :
                 heap'[a].UUID # UuidOf(d, ValveKey(z))
          /\ \A a \in valves :
               /\ heap'[a] = heap[a]
               /\ handlers'[a] = handlers[a]
               /\ a \in registered' <=> a \in registered
               /\ a \in published' <=> a \in published
               /\ a \in updated' <=> a \in updated
          /\ SelectSeq(accessories', LAMBDA a : a \in valves)
               = SelectSeq(accessories, LAMBDA a : a \in valves)
          /\ SelectSeq(unregistered', LAMBDA a : a \in valves)
               = SelectSeq(unregistered, LAMBDA a : a \in valves)]_vars

\* zone_enable(z, false) was handled for a zone whose valve is registered
C32_Witness ==
  \E n \in 1..Len(notifications) :
    /\ ~notifications[n].enabled
    /\ \E i \in 1..Len(accessories) :
         /\ heap[accessories[i]].UUID =
              UuidOf(notifications[n].dev, ValveKey(notifications[n].zoneId))
         /\ accessories[i] \in registered

\* the device a step works for: the device of the notification handled, of
\* the pass resumed, or of the discovery iteration
StepDevice ==
  IF Len(notifications') > Len(notifications)
  THEN notifications'[Len(notifications')].dev
  ELSE IF queue # <<>> /\ Head(queue).t = "pass" THEN Head(queue).dev
  ELSE disc.dev

\* devices e and d differ in address or serial
OtherDevice(e, d) ==
  \/ d = 0
  \/ devices[e].ipaddress # devices[d].ipaddress
  \/ metaData[e].serialNumber # metaData[d].serialNumber

\* C33: a pass or a zone_enable notification for one device leaves every
\* accessory of a device with another address or serial as it is, in
\* this.accessories and at the host, and creates no accessory with an
\* identifier of such a device.
C33_OtherDevicesUntouched ==
  [][cache' = cache =>
       \A e \in 1..Len(devices) :
         OtherDevice(e, StepDevice) =>
           LET objs == Objects(e)
           IN /\ \A a \in (Len(heap) + 1)..Len(heap') :
                   heap'[a].UUID \notin UuidsOf(e)
              /\ \A a \in objs :
                   /\ heap'[a] = heap[a]
                   /\ handlers'[a] = handlers[a]
                   /\ a \in registered' <=> a \in registered
                   /\ a \in published' <=> a \in published
                   /\ a \in updated' <=> a \in updated
              /\ SelectSeq(accessories', LAMBDA a : a \in objs)
                   = SelectSeq(accessories, LAMBDA a : a \in objs)
              /\ SelectSeq(unregistered', LAMBDA a : a \in objs)
                   = SelectSeq(unregistered, LAMBDA a : a \in objs)]_vars

\* two devices hold accessories of their own, and a notification of the
\* second device was handled
C33_Witness ==
  /\ Len(devices) = 2
  /\ OtherDevice(1, 2)
  /\ \A d \in 1..2 : \E i \in 1..Len(accessories) :
       accessories[i] \in Objects(d) /\ accessories[i] \in registered
  /\ \E n \in 1..Len(notifications) : notifications[n].dev = 2

\* C34: the stop switch is momentary: stopIrrigationSwitch.state is false
\* after every step, whatever setOn calls and status events were handled;
\* setOn(true) calls deactivateAllZones() and then stopIrrigation(), and
\* setOn(false) makes no call on the handle.
C34_StopSwitchMomentary ==
  [][/\ calc'.constructed => ~calc'.state
     /\ calc'.op = "setOn" /\ calc'.value =>
          calc'.commands =
            calc.commands \o <<"deactivateAllZones", "stopIrrigation">>
     /\ calc'.op = "setOn" /\ ~calc'.value =>
          calc'.commands = calc.commands]_vars

\* setOn(true) was called a second time
C34_Witness ==
  /\ calc.op = "setOn"
  /\ calc.value
  /\ ~calc.state
  /\ calc.commands = <<"deactivateAllZones", "stopIrrigation",
                       "deactivateAllZones", "stopIrrigation">>

\* C35: setting the delay switch on calls
\* setIrrigationDelay(device.irrigationDelay) and setting it off calls
\* setIrrigationDelay(0); a read answers on exactly when the delay the
\* controller reports is greater than 0.  So a read that follows a set the
\* controller has stored answers off after a set to off, and after a set to
\* on it answers on if and only if the configured irrigationDelay is greater
\* than 0.
C35_DelayRoundTrip ==
  [][/\ calc'.op = "onSet" =>
          calc'.pending =
            Append(calc.pending,
                   IF calc'.value THEN calc.irrigationDelay ELSE 0)
     /\ calc'.op = "onGet" => (calc'.returned <=> calc'.read > 0)
     /\ calc.op = "stored" /\ calc.pending = <<>> /\ calc'.op = "onGet" =>
          (calc'.returned <=> calc.value /\ calc.irrigationDelay > 0)]_vars

\* with irrigationDelay 0 configured the switch was set on, the controller
\* stored the delay, and the read that followed answered off
C35_Witness ==
  /\ calc.op = "onGet"
  /\ calc.after = "stored"
  /\ calc.pending = <<>>
  /\ calc.value
  /\ calc.irrigationDelay = 0
  /\ ~calc.returned
====
